---------------------------- MODULE Spec2Model ----------------------------
(***************************************************************************)
(* Model of the edge-assistant server-sent-event feed.                     *)
(*                                                                         *)
(*   Server half: src/src/pages/api/hello.ts, the request handler with its *)
(*   two interval timers (periodic data, heartbeat) and its termination    *)
(*   listeners.  One connection is modelled: every resource of the handler *)
(*   is local to its call.                                                  *)
(*                                                                         *)
(*   Client half: src/src/components/HelloWorld.tsx, the React component   *)
(*   holding the EventSource, the reconnect timeout and the retry state.   *)
(*                                                                         *)
(* Spec is the server's state machine, ClientSpec the client's.  Times are *)
(* integers in milliseconds.                                                *)
(***************************************************************************)
EXTENDS Integers, Sequences, FiniteSets, TLC

VARIABLES
    \* ---- server (hello.ts), one connection ----
    method,        \* req.method of the request being handled
    srvPhase,      \* "idle" before handler runs, then "rejected" or "streaming"
    httpStatus,    \* status written (0 = none yet)
    headWrites,    \* number of res.writeHead calls
    allowHeader,   \* value given to res.setHeader('Allow', ...), "" if none
    body,          \* argument of res.end: [text, method] or <<>> if none
    frames,        \* sequence of frames handed to res.write successfully
    interval,      \* the setInterval(..., 5000) timer  [created, active, due]
    heartbeat,     \* the setInterval(..., 30000) timer [created, active, due]
    listeners,     \* listeners registered with req.on / res.on
    now,           \* virtual clock, ms since the handler ran
    raised,        \* an exception escaped a callback of the handler
    terminated,    \* history: a termination signal has occurred
    framesAtTerm,  \* history: Len(frames) when the first signal occurred
    signals,       \* history: the kinds of termination signal that have occurred
    resCalls,      \* history: the calls made on res, in order
    srvLast,       \* history: the last server step taken
    \* ---- client (HelloWorld.tsx), one mounted component ----
    helloData,         \* useState helloData
    error,             \* useState error
    connectionStatus,  \* useState connectionStatus
    retryCount,        \* useState retryCount
    lastUpdateTime,    \* useState lastUpdateTime ("null" or "set")
    streams,           \* EventSource objects not yet garbage: [cap, ready]
    esRef,             \* eventSourceRef.current: index into streams, 0 = null
    timers,            \* setTimeout handles: [cap, delay, pending]
    timerRef,          \* reconnectTimeoutRef.current: index into timers, 0 = null
    effectPending,     \* `connect` changed identity: the mount effect must re-run
    mounted,           \* the component is mounted
    ctorMayThrow,      \* environment: `new EventSource` can throw here
    errs,              \* history: OnError events since retryCount was last reset
    afterManual,       \* history: a manual reconnect() has run
    threw,             \* history: the connect() of the last step threw
    cliLast            \* history: the last client step taken

srvVars == <<method, srvPhase, httpStatus, headWrites, allowHeader, body, frames,
             interval, heartbeat, listeners, now, raised, terminated,
             framesAtTerm, signals, resCalls, srvLast>>

cliVars == <<helloData, error, connectionStatus, retryCount, lastUpdateTime,
             streams, esRef, timers, timerRef, effectPending, mounted,
             ctorMayThrow, errs, afterManual, threw, cliLast>>

vars == <<srvVars, cliVars>>

Min(a, b) == IF a <= b THEN a ELSE b

(***************************************************************************)
(*                              SERVER                                     *)
(***************************************************************************)

\* Program constants of hello.ts.
DataIntervalMs == 5000
HeartbeatIntervalMs == 30000
StatusOk == 200
StatusMethodNotAllowed == 405

\* Bound of the model: the virtual clock stops here.
MaxTime == 65000

\* The clock advances in steps of half a data interval, so that there are
\* instants at which no timer is due.
Quantum == DataIntervalMs \div 2

Methods == {"GET", "POST", "PUT"}

NoTimer == [created |-> FALSE, active |-> FALSE, due |-> 0]

\* Variant: a timer whose first tick is immediate.
SetIntervalImmediate(t, ms) == [created |-> TRUE, active |-> TRUE, due |-> t]

\* setInterval(cb, ms) called at time t: first tick at t + ms.
SetInterval(t, ms) == [created |-> TRUE, active |-> TRUE, due |-> t + ms]

\* clearInterval(h): the timer never ticks again; clearing a cleared (or never
\* created) timer is a no-op and raises nothing.
ClearInterval(h) == [h EXCEPT !.active = FALSE]

\* A repeating timer that has just ticked is re-armed one period later.
Rearm(h, ms) == [h EXCEPT !.due = h.due + ms]

\* Variant: the first frame built like a periodic one.
InitialFrameWithoutGreeting(t) == [kind |-> "data", message |-> "Hello World", ts |-> t]

\* Variant: a periodic frame stamped once, when the handler ran.
PeriodicFrameStaleTime(t) == [kind |-> "data", message |-> "Hello World", ts |-> 0]

\* The frames of lines 29-35, 39-46 and 74, the timestamp in ms since the
\* handler ran.
InitialFrame(t) == [kind |-> "data", message |-> "Hello World - Connected!", ts |-> t]
PeriodicFrame(t) == [kind |-> "data", message |-> "Hello World", ts |-> t]
HeartbeatFrame == [kind |-> "heartbeat", message |-> "", ts |-> 0]

\* History bookkeeping of a termination signal of kind sig.
NoteSignal(sig) ==
    /\ terminated' = TRUE
    /\ framesAtTerm' = IF terminated THEN framesAtTerm ELSE Len(frames)
    /\ signals' = signals \cup {sig}

NoSignal == UNCHANGED <<terminated, framesAtTerm, signals>>

\* Variant: the initial frame written before the headers.
AcceptCallsWriteFirst == <<"write", "writeHead">>

\* The calls the GET path makes on res before it creates the timers, in the
\* order of lines 19 and 35.
AcceptCalls == <<"writeHead", "write">>

\* The calls the rejecting path makes on res, lines 11-12.
RejectCalls == <<"setHeader", "status", "end">>

\* Variant: a body that does not name the method.
RejectBodyNoMethod(m) == <<"Method", "Not Allowed">>

\* The text given to res.end for a rejected method m, line 12.
RejectBody(m) == <<"Method", m, "Not Allowed">>

\* Variants of the data tick's catch block: one that cancels nothing, one that
\* cancels the heartbeat too.
DataCatchKeepsTimer(iv, hb) == [interval |-> iv, heartbeat |-> hb]
DataCatchClearsBoth(iv, hb) ==
    [interval |-> ClearInterval(iv), heartbeat |-> ClearInterval(hb)]

\* The catch block of the data tick, lines 47-51, on the two timers.
DataCatch(iv, hb) == [interval |-> ClearInterval(iv), heartbeat |-> hb]

\* The catch block of the heartbeat tick, lines 75-79, on the two timers.
HeartbeatCatch(iv, hb) ==
    [interval |-> ClearInterval(iv), heartbeat |-> ClearInterval(hb)]

SrvInit ==
    /\ method \in Methods
    /\ srvPhase = "idle"
    /\ httpStatus = 0
    /\ headWrites = 0
    /\ allowHeader = ""
    /\ body = <<>>
    /\ frames = <<>>
    /\ interval = NoTimer
    /\ heartbeat = NoTimer
    /\ listeners = {}
    /\ now = 0
    /\ raised = FALSE
    /\ terminated = FALSE
    /\ framesAtTerm = 0
    /\ signals = {}
    /\ resCalls = <<>>
    /\ srvLast = "init"

\* handler(), lines 10-14: any method but GET.
Reject ==
    /\ srvPhase = "idle"
    /\ method # "GET"
    /\ srvPhase' = "rejected"
    /\ allowHeader' = "GET"
    /\ httpStatus' = StatusMethodNotAllowed
    /\ body' = RejectBody(method)
    /\ resCalls' = resCalls \o RejectCalls
    /\ srvLast' = "reject"
    /\ UNCHANGED <<cliVars, method, headWrites, frames, interval, heartbeat, listeners,
                   now, raised, terminated, framesAtTerm, signals>>

\* handler(), lines 16-85: a GET request.  Headers, the initial frame, the two
\* timers and the four listeners, in the order of the code.
Accept ==
    /\ srvPhase = "idle"
    /\ method = "GET"
    /\ srvPhase' = "streaming"
    /\ httpStatus' = StatusOk
    /\ headWrites' = headWrites + Len(SelectSeq(AcceptCalls, LAMBDA c : c = "writeHead"))
    /\ frames' = Append(frames, InitialFrame(now))
    /\ resCalls' = resCalls \o AcceptCalls
    /\ interval' = SetInterval(now, DataIntervalMs)
    /\ heartbeat' = SetInterval(now, HeartbeatIntervalMs)
    /\ listeners' = {"close:interval", "end:interval", "error:interval",
                     "close:heartbeat"}
    /\ srvLast' = "accept"
    /\ UNCHANGED <<cliVars, method, allowHeader, body, now, raised, terminated,
                   framesAtTerm, signals>>

\* The callback of the data timer, lines 38-52.  ok: res.write returned; ~ok:
\* res.write threw and the catch block ran.
DataTick(ok) ==
    /\ interval.active
    /\ interval.due = now
    /\ IF ok
         THEN /\ frames' = Append(frames, PeriodicFrame(now))
              /\ interval' = Rearm(interval, DataIntervalMs)
              /\ heartbeat' = heartbeat
              /\ NoSignal
         ELSE /\ frames' = frames
              /\ LET c == DataCatch(Rearm(interval, DataIntervalMs), heartbeat)
                 IN  /\ interval' = c.interval
                     /\ heartbeat' = c.heartbeat
              /\ NoteSignal("dataFail")
    /\ resCalls' = Append(resCalls, IF ok THEN "write" ELSE "writeThrew")
    /\ srvLast' = IF ok THEN "data" ELSE "dataFail"
    /\ UNCHANGED <<cliVars, method, srvPhase, httpStatus, headWrites, allowHeader, body,
                   listeners, now, raised>>

\* The callback of the heartbeat timer, lines 72-80.
HeartbeatTick(ok) ==
    /\ heartbeat.active
    /\ heartbeat.due = now
    /\ IF ok
         THEN /\ frames' = Append(frames, HeartbeatFrame)
              /\ heartbeat' = Rearm(heartbeat, HeartbeatIntervalMs)
              /\ interval' = interval
              /\ NoSignal
         ELSE /\ frames' = frames
              /\ LET c == HeartbeatCatch(interval, Rearm(heartbeat, HeartbeatIntervalMs))
                 IN  /\ interval' = c.interval
                     /\ heartbeat' = c.heartbeat
              /\ NoteSignal("heartbeatFail")
    /\ resCalls' = Append(resCalls, IF ok THEN "write" ELSE "writeThrew")
    /\ srvLast' = IF ok THEN "heartbeat" ELSE "heartbeatFail"
    /\ UNCHANGED <<cliVars, method, srvPhase, httpStatus, headWrites, allowHeader, body,
                   listeners, now, raised>>

\* req 'close': both listeners run, lines 55-58 and 83-85.
ReqClose ==
    /\ "close:interval" \in listeners
    /\ interval' = ClearInterval(interval)
    /\ heartbeat' = IF "close:heartbeat" \in listeners
                      THEN ClearInterval(heartbeat) ELSE heartbeat
    /\ NoteSignal("close")
    /\ srvLast' = "close"
    /\ UNCHANGED <<cliVars, method, srvPhase, httpStatus, headWrites, allowHeader, body,
                   frames, listeners, now, raised, resCalls>>

\* req 'end', lines 60-63.
ReqEnd ==
    /\ "end:interval" \in listeners
    /\ interval' = ClearInterval(interval)
    /\ NoteSignal("end")
    /\ srvLast' = "end"
    /\ UNCHANGED <<cliVars, method, srvPhase, httpStatus, headWrites, allowHeader, body,
                   frames, heartbeat, listeners, now, raised, resCalls>>

\* res 'error', lines 66-69.
ResError ==
    /\ "error:interval" \in listeners
    /\ interval' = ClearInterval(interval)
    /\ NoteSignal("error")
    /\ srvLast' = "error"
    /\ UNCHANGED <<cliVars, method, srvPhase, httpStatus, headWrites, allowHeader, body,
                   frames, heartbeat, listeners, now, raised, resCalls>>

\* Time passes when no active timer is due.
TimerDue(h) == h.active /\ h.due <= now

Advance ==
    /\ srvPhase # "idle"
    /\ ~TimerDue(interval)
    /\ ~TimerDue(heartbeat)
    /\ now + Quantum <= MaxTime
    /\ now' = now + Quantum
    /\ srvLast' = "advance"
    /\ UNCHANGED <<cliVars, method, srvPhase, httpStatus, headWrites, allowHeader, body,
                   frames, interval, heartbeat, listeners, raised, terminated,
                   framesAtTerm, signals, resCalls>>

SrvNext ==
    \/ Reject
    \/ Accept
    \/ \E ok \in BOOLEAN : DataTick(ok)
    \/ \E ok \in BOOLEAN : HeartbeatTick(ok)
    \/ ReqClose
    \/ ReqEnd
    \/ ResError
    \/ Advance

(***************************************************************************)
(*                              CLIENT                                     *)
(***************************************************************************)

\* Program constants of HelloWorld.tsx.
maxRetries == 10
baseDelay == 1000
maxDelay == 30000
JitterMs == 1000

\* Math.random() * 1000 lies in [0, 1000): the values tried.
Jitters == {0, JitterMs \div 2, JitterMs - 1}

\* Bound of the model: EventSource objects and timeout handles alive at once.
\* The code never holds more than one of each; the bound only stops a model in
\* which they leak.
MaxLive == 3

NoError == "null"
ParseError == "Failed to parse server data"
RetriesError == "Connection failed after maxRetries attempts"
ConnectError == "Failed to establish connection"

NoData == "null"

\* event.data of a message event: two well-formed Message documents, a JSON
\* document that is no Message, and two texts that are not JSON.
Payloads == {"{message,timestamp:1}", "{message,timestamp:2}", "42",
             "{message:", "<html>"}

\* JSON.parse(event.data), line 59: the parsed value, or a thrown SyntaxError.
\* The code does not look at the shape of the value it parsed.
JsonParse(p) ==
    CASE p = "{message,timestamp:1}" -> [ok |-> TRUE, val |-> "Message@1"]
      [] p = "{message,timestamp:2}" -> [ok |-> TRUE, val |-> "Message@2"]
      [] p = "42" -> [ok |-> TRUE, val |-> "Number42"]
      [] OTHER -> [ok |-> FALSE, val |-> NoData]

\* Variant: the delay taken from the attempt number after the increment.
getRetryDelayAfterIncrement(retryAttempt, jitter) ==
    Min(baseDelay * 2 ^ (retryAttempt + 1), maxDelay) + jitter

\* getRetryDelay(retryAttempt), lines 24-28, with Math.random() * 1000 = jitter.
getRetryDelay(retryAttempt, jitter) ==
    Min(baseDelay * 2 ^ retryAttempt, maxDelay) + jitter

\* es.close() on the object at index i (0: the ref is null, nothing to close).
CloseAt(ss, i) == IF i = 0 THEN ss ELSE [ss EXCEPT ![i].ready = "closed"]

\* clearTimeout on the handle at index k (0: the ref is null).
ClearAt(ts, k) == IF k = 0 THEN ts ELSE [ts EXCEPT ![k].pending = FALSE]

LiveStream(s) == s.ready # "closed"
PendingTimer(t) == t.pending

\* Indices kept by the collector, alive[i] telling whether object i is alive:
\* the live objects and the one a ref still points to.
KeptIdx(alive, ref) ==
    LET F[i \in 0..Len(alive)] ==
            IF i = 0 THEN <<>>
            ELSE IF alive[i] \/ i = ref THEN Append(F[i - 1], i)
            ELSE F[i - 1]
    IN  F[Len(alive)]

\* Garbage collection: objects that are dead and unreferenced are dropped.
Gc(seq, ref, alive) ==
    LET idx == KeptIdx(alive, ref)
    IN  [objs |-> [k \in 1..Len(idx) |-> seq[idx[k]]],
         ref  |-> IF ref = 0 THEN 0
                  ELSE CHOOSE k \in 1..Len(idx) : idx[k] = ref]

\* Variants of the test of onerror: one retry fewer, one retry more.
CanRetryOneFewer(cap) == cap < maxRetries - 1
CanRetryInclusive(cap) == cap <= maxRetries

\* The test of onerror, line 77, on the retryCount the handler captured.
CanRetry(cap) == cap < maxRetries

\* Variant: onopen without setRetryCount(0).
OnOpenRetryCountKept(rc) == rc

\* setRetryCount(0) in onopen, line 51.
OnOpenRetryCount(rc) == 0

\* Variant: reconnect() without setRetryCount(0).
ReconnectRetryCountKept(rc) == rc

\* setRetryCount(0) in reconnect(), line 101.
ReconnectRetryCount(rc) == 0

\* Variant: a timer callback without setRetryCount(prev => prev + 1).
TimerRetryCountKept(rc) == rc

\* setRetryCount(prev => prev + 1) in the timer callback, line 84.
TimerRetryCount(rc) == rc + 1

\* Variant: a parse failure treated as a connection failure.
OnParseFailureDisconnects(st) == [status |-> "disconnected", error |-> ParseError]

\* The catch block of onmessage, lines 66-70: the status and error it leaves.
OnParseFailure(st) == [status |-> st, error |-> ParseError]

\* Variant: onerror without eventSource.close().
OnErrorCloseSkipped(ss, i) == ss

\* eventSource.close() in onerror, line 75.
OnErrorClose(ss, i) == CloseAt(ss, i)

\* The clean-up half of connect(), lines 33-39.
ConnectCleanup(ss, r, ts, tr) ==
    [streams |-> CloseAt(ss, r), timers |-> ClearAt(ts, tr)]

\* Variant: a clean-up that closes the stream and leaves the timeout.
EffectCleanupStreamOnly(ss, r, ts, tr) ==
    [streams |-> CloseAt(ss, r), timers |-> ts]

\* The clean-up function of the mount effect, lines 110-117.
EffectCleanup(ss, r, ts, tr) ==
    [streams |-> CloseAt(ss, r), timers |-> ClearAt(ts, tr)]

\* connect(), lines 31-97, called by a callback that captured retryCount = cap,
\* on the heap (ss, r, ts, tr).  throws: `new EventSource` threw.
ConnectResult(ss, r, ts, tr, cap, throws) ==
    LET c == ConnectCleanup(ss, r, ts, tr)
    IN  IF throws
          THEN [streams |-> c.streams, esRef |-> r,
                timers |-> c.timers, timerRef |-> tr,
                status |-> "disconnected", error |-> ConnectError]
          ELSE [streams |-> Append(c.streams, [cap |-> cap, ready |-> "connecting"]),
                esRef |-> Len(c.streams) + 1,
                timers |-> c.timers, timerRef |-> tr,
                status |-> "connecting", error |-> NoError]

\* The heap after a step, collected.
SetHeap(ss, r, ts, tr) ==
    LET gs == Gc(ss, r, [i \in 1..Len(ss) |-> LiveStream(ss[i])])
        gt == Gc(ts, tr, [k \in 1..Len(ts) |-> PendingTimer(ts[k])])
    IN  /\ streams' = gs.objs
        /\ esRef' = gs.ref
        /\ timers' = gt.objs
        /\ timerRef' = gt.ref

ThrowOutcomes == IF ctorMayThrow THEN BOOLEAN ELSE {FALSE}

Room == Len(streams) < MaxLive /\ Len(timers) < MaxLive

\* The component at its first render, before the mount effect has run.
FirstRender ==
    /\ helloData = NoData
    /\ error = NoError
    /\ connectionStatus = "connecting"
    /\ retryCount = 0
    /\ lastUpdateTime = "null"
    /\ streams = <<>>
    /\ esRef = 0
    /\ timers = <<>>
    /\ timerRef = 0
    /\ effectPending = TRUE
    /\ mounted = TRUE
    /\ errs = 0
    /\ afterManual = FALSE
    /\ threw = FALSE
    /\ cliLast = "init"

\* The component where `new EventSource('/api/hello')` does not throw.
CliInit == FirstRender /\ ctorMayThrow = FALSE

\* The mount effect, lines 106-118: first run after mount, and again (clean-up
\* first) whenever `connect` changed identity, i.e. retryCount changed.
RunEffect(throws) ==
    /\ mounted
    /\ effectPending
    /\ Room
    /\ LET u == EffectCleanup(streams, esRef, timers, timerRef)
           c == ConnectResult(u.streams, esRef, u.timers, timerRef, retryCount, throws)
       IN  /\ SetHeap(c.streams, c.esRef, c.timers, c.timerRef)
           /\ connectionStatus' = c.status
           /\ error' = c.error
    /\ effectPending' = FALSE
    /\ threw' = throws
    /\ cliLast' = "effect"
    /\ UNCHANGED <<srvVars, helloData, retryCount, lastUpdateTime, mounted,
                   ctorMayThrow, errs, afterManual>>

\* eventSource.onopen of stream i, lines 48-53.
OnOpen(i) ==
    /\ ~effectPending
    /\ i \in 1..Len(streams)
    /\ streams[i].ready = "connecting"
    /\ connectionStatus' = "connected"
    /\ retryCount' = OnOpenRetryCount(retryCount)
    /\ error' = NoError
    /\ SetHeap([streams EXCEPT ![i].ready = "open"], esRef, timers, timerRef)
    /\ effectPending' = (retryCount' # retryCount)
    /\ errs' = 0
    /\ threw' = FALSE
    /\ cliLast' = "open"
    /\ UNCHANGED <<srvVars, helloData, lastUpdateTime, mounted, ctorMayThrow,
                   afterManual>>

\* eventSource.onmessage of stream i with event.data = p, lines 55-71.
OnMessage(i, p) ==
    /\ ~effectPending
    /\ i \in 1..Len(streams)
    /\ streams[i].ready = "open"
    /\ LET parsed == JsonParse(p)
       IN  IF parsed.ok
             THEN /\ helloData' = parsed.val
                  /\ lastUpdateTime' = "set"
                  /\ connectionStatus' = "connected"
                  /\ error' = NoError
                  /\ cliLast' = "message"
             ELSE /\ connectionStatus' = OnParseFailure(connectionStatus).status
                  /\ error' = OnParseFailure(connectionStatus).error
                  /\ cliLast' = "badMessage"
                  /\ UNCHANGED <<helloData, lastUpdateTime>>
    /\ threw' = FALSE
    /\ UNCHANGED <<srvVars, retryCount, streams, esRef, timers, timerRef,
                   effectPending, mounted, ctorMayThrow, errs, afterManual>>

\* eventSource.onerror of stream i, lines 73-91.  The handler reads the
\* retryCount its connect() captured.
OnError(i, jitter) ==
    /\ ~effectPending
    /\ i \in 1..Len(streams)
    /\ LiveStream(streams[i])
    /\ Room
    /\ LET cap == streams[i].cap
           ss == OnErrorClose(streams, i)
       IN  IF CanRetry(cap)
             THEN /\ connectionStatus' = "reconnecting"
                  /\ SetHeap(ss, esRef,
                             Append(timers, [cap |-> cap,
                                             delay |-> getRetryDelay(cap, jitter),
                                             pending |-> TRUE]),
                             Len(timers) + 1)
                  /\ error' = error
             ELSE /\ connectionStatus' = "disconnected"
                  /\ error' = RetriesError
                  /\ SetHeap(ss, esRef, timers, timerRef)
    /\ errs' = Min(errs + 1, maxRetries + 2)
    /\ threw' = FALSE
    /\ cliLast' = "error"
    /\ UNCHANGED <<srvVars, helloData, retryCount, lastUpdateTime, effectPending,
                   mounted, ctorMayThrow, afterManual>>

\* The callback of reconnect timer k, lines 83-86: setRetryCount(prev => prev + 1)
\* and the connect() the failed stream's handler captured.
TimerFire(k, throws) ==
    /\ ~effectPending
    /\ k \in 1..Len(timers)
    /\ timers[k].pending
    /\ Room
    /\ retryCount' = TimerRetryCount(retryCount)
    /\ LET fired == [timers EXCEPT ![k].pending = FALSE]
           c == ConnectResult(streams, esRef, fired, timerRef, timers[k].cap, throws)
       IN  /\ SetHeap(c.streams, c.esRef, c.timers, c.timerRef)
           /\ connectionStatus' = c.status
           /\ error' = c.error
    /\ effectPending' = (mounted /\ retryCount' # retryCount)
    /\ threw' = throws
    /\ cliLast' = "timer"
    /\ UNCHANGED <<srvVars, helloData, lastUpdateTime, mounted, ctorMayThrow, errs,
                   afterManual>>

\* reconnect(), lines 100-103, bound to the Retry button, which is rendered
\* only while connectionStatus is 'disconnected' (lines 161-168).
Reconnect(throws) ==
    /\ mounted
    /\ ~effectPending
    /\ connectionStatus = "disconnected"
    /\ Room
    /\ retryCount' = ReconnectRetryCount(retryCount)
    /\ LET c == ConnectResult(streams, esRef, timers, timerRef, retryCount, throws)
       IN  /\ SetHeap(c.streams, c.esRef, c.timers, c.timerRef)
           /\ connectionStatus' = c.status
           /\ error' = c.error
    /\ effectPending' = (retryCount' # retryCount)
    /\ errs' = 0
    /\ threw' = throws
    /\ cliLast' = "reconnect"
    /\ afterManual' = TRUE
    /\ UNCHANGED <<srvVars, helloData, lastUpdateTime, mounted, ctorMayThrow>>

\* Unmount: the clean-up function of the mount effect, lines 110-117.
Teardown ==
    /\ mounted
    /\ LET u == EffectCleanup(streams, esRef, timers, timerRef)
       IN  SetHeap(u.streams, esRef, u.timers, timerRef)
    /\ mounted' = FALSE
    /\ effectPending' = FALSE
    /\ threw' = FALSE
    /\ cliLast' = "teardown"
    /\ UNCHANGED <<srvVars, helloData, error, connectionStatus, retryCount,
                   lastUpdateTime, ctorMayThrow, errs, afterManual>>

CliNext ==
    \/ \E th \in ThrowOutcomes : RunEffect(th)
    \/ \E i \in 1..Len(streams) : OnOpen(i)
    \/ \E i \in 1..Len(streams), p \in Payloads : OnMessage(i, p)
    \/ \E i \in 1..Len(streams), j \in Jitters : OnError(i, j)
    \/ \E k \in 1..Len(timers), th \in ThrowOutcomes : TimerFire(k, th)
    \/ \E th \in ThrowOutcomes : Reconnect(th)
    \/ Teardown

(***************************************************************************)
(*                           SPECIFICATIONS                                *)
(***************************************************************************)

\* The server handling one request; the client half stays as constructed.
Init == SrvInit /\ CliInit

Next == SrvNext

Spec == Init /\ [][Next]_vars

\* The client component from its first render; the server half stays idle.
ClientInit == CliInit /\ SrvInit /\ method = "GET"

ClientSpec == ClientInit /\ [][CliNext]_vars

\* The client where `new EventSource` can throw: each connect() either gets
\* its stream or takes the catch block of lines 92-96.
ClientThrowInit == FirstRender /\ ctorMayThrow = TRUE /\ SrvInit /\ method = "GET"

ClientThrowSpec == ClientThrowInit /\ [][CliNext]_vars

\* A connection attempt comes to an end: the stream that is connecting opens
\* or fails.
AttemptSettles ==
    \E i \in 1..Len(streams) :
        /\ streams[i].ready = "connecting"
        /\ (OnOpen(i) \/ \E j \in Jitters : OnError(i, j))

\* The client under the scheduling its runtime gives it: a re-triggered effect
\* runs, a pending timeout fires, and (the network's part) every connection
\* attempt opens or fails.  Manual steps stay possible and are never forced.
ClientLiveSpec ==
    /\ ClientInit
    /\ [][CliNext]_vars
    /\ WF_vars(\E th \in ThrowOutcomes : RunEffect(th))
    /\ WF_vars(\E k \in 1..Len(timers), th \in ThrowOutcomes : TimerFire(k, th))
    /\ WF_vars(AttemptSettles)

(***************************************************************************)
(*                         SERVER PROPERTIES                               *)
(***************************************************************************)

\* C1 (as stated): once a termination signal (close, end, res error, a failed
\* write in a tick) has occurred, no further frame is written: the frames
\* written are those written when the first signal occurred.
C1_NoFrameAfterSignal == terminated => Len(frames) = framesAtTerm

\* C4 (as stated): whatever termination signals have arrived, no error was
\* raised and, from the first signal on, both timers are cancelled (so that a
\* later signal finds nothing to change).
C4_BothCancelledOnFirstSignal ==
    terminated => (~raised /\ ~interval.active /\ ~heartbeat.active)

Greeting == "Hello World - Connected!"

PeriodicFrames ==
    SelectSeq(frames, LAMBDA f : f.kind = "data" /\ f.message # Greeting)
HeartbeatFrames == SelectSeq(frames, LAMBDA f : f.kind = "heartbeat")

\* C11: for an accepted request the first frame written is the initial data
\* frame with the connected payload, stamped with the instant the handler
\* ran (no timer delay) and written right after the headers; every other
\* frame, periodic or heartbeat, comes after it and none repeats it.
C11_InitialFrameFirst ==
    srvPhase = "streaming"
        => /\ Len(frames) >= 1
           /\ frames[1] = [kind |-> "data", message |-> Greeting, ts |-> 0]
           /\ \A i \in 2..Len(frames) : frames[i].message # Greeting
           /\ Len(resCalls) >= 2 /\ resCalls[2] = "write"

\* The initial frame followed by periodic frames and a heartbeat.
C11_Witness ==
    /\ Len(frames) >= 8
    /\ frames[1].message = Greeting
    /\ frames[2].message = "Hello World"
    /\ Len(HeartbeatFrames) >= 1

\* C12: with no termination signal, once the callbacks due at the current
\* instant have run, exactly now / 5000 periodic frames have been written and
\* the i-th carries the timestamp i * 5000.
C12_PeriodicCadence ==
    (srvPhase = "streaming" /\ ~terminated /\ ~TimerDue(interval))
        => /\ Len(PeriodicFrames) = now \div 5000
           /\ \A i \in 1..Len(PeriodicFrames) : PeriodicFrames[i].ts = i * 5000

C12_Witness ==
    /\ ~terminated
    /\ now = 15000
    /\ Len(PeriodicFrames) = 3
    /\ PeriodicFrames[3].ts = 15000

\* C13: with no termination signal, heartbeat frames are written at the
\* instants 30000, 60000, ... and at no other: once the heartbeat due at the
\* current instant has run, exactly now / 30000 of them have been written,
\* whatever the data frames.
C13_HeartbeatCadence ==
    /\ (srvPhase = "streaming" /\ ~terminated /\ ~TimerDue(heartbeat))
          => Len(HeartbeatFrames) = now \div 30000
    /\ srvLast = "heartbeat" => (now >= 30000 /\ now % 30000 = 0)

C13_Witness ==
    /\ ~terminated
    /\ now = 60000
    /\ Len(HeartbeatFrames) = 2
    /\ Len(PeriodicFrames) = 12

\* C14: a request whose method M is not GET is answered 405 with Allow: GET
\* and the body 'Method M Not Allowed', by exactly the calls setHeader,
\* status, end; no headers of a stream, no frame, no timer and no listener,
\* then or later.
C14_RejectOnly ==
    /\ method # "GET" => srvPhase \in {"idle", "rejected"}
    /\ srvPhase = "rejected"
          => /\ method # "GET"
             /\ httpStatus = 405
             /\ allowHeader = "GET"
             /\ body = <<"Method", method, "Not Allowed">>
             /\ resCalls = <<"setHeader", "status", "end">>
             /\ headWrites = 0
             /\ frames = <<>>
             /\ ~interval.created /\ ~heartbeat.created
             /\ listeners = {}
             /\ ~terminated

C14_Witness ==
    /\ srvPhase = "rejected"
    /\ method = "PUT"
    /\ now >= 30000

\* C15: for an accepted request the stream headers are written with status
\* 200 exactly once, and before any frame.
C15_HeadersOnceFirst ==
    /\ srvPhase = "streaming"
          => /\ headWrites = 1
             /\ httpStatus = 200
             /\ resCalls[1] = "writeHead"
             /\ \A i \in 2..Len(resCalls) : resCalls[i] # "writeHead"
    /\ frames # <<>> => headWrites = 1

C15_Witness ==
    /\ srvPhase = "streaming"
    /\ headWrites = 1
    /\ Len(frames) >= 3
    /\ terminated

\* C16: a write that fails in a tick raises nothing out of the tick and
\* cancels the timer of that tick; a cancelled timer is never active again, and
\* after a failed data write the only writes are the heartbeat's (no retry).
C16_FailedWriteCancelsItsTimer ==
    /\ [](/\ srvLast = "dataFail" => (~interval.active /\ ~raised)
          /\ srvLast = "heartbeatFail" => (~heartbeat.active /\ ~raised))
    /\ [][/\ (interval.created /\ ~interval.active) => ~interval'.active
          /\ (heartbeat.created /\ ~heartbeat.active) => ~heartbeat'.active
          /\ ("dataFail" \in signals /\ resCalls' # resCalls)
                => srvLast' \in {"heartbeat", "heartbeatFail"}]_vars

\* A failed data write at 5000, and 5000 ms later no other data frame.
C16_Witness ==
    /\ signals = {"dataFail"}
    /\ now = 10000
    /\ Len(frames) = 1
    /\ resCalls = <<"writeHead", "write", "writeThrew">>

\* C17 (as stated): a failed write in a tick of one timer leaves the other
\* timer running, in both directions.
C17_TimersIndependent ==
    /\ signals = {"dataFail"} => heartbeat.active
    /\ signals = {"heartbeatFail"} => interval.active

\* C17 (amended): a failed data write leaves the heartbeat timer running at
\* its own cadence; a failed heartbeat write cancels both timers.
C17_DataFailureLeavesHeartbeat ==
    /\ signals = {"dataFail"}
          => /\ heartbeat.active
             /\ ~TimerDue(heartbeat) => Len(HeartbeatFrames) = now \div 30000
    /\ "heartbeatFail" \in signals => (~interval.active /\ ~heartbeat.active)

C17_Witness ==
    /\ signals = {"dataFail"}
    /\ now = 60000
    /\ Len(HeartbeatFrames) = 2

(***************************************************************************)
(*                         CLIENT PROPERTIES                               *)
(***************************************************************************)

LiveStreams == {i \in 1..Len(streams) : LiveStream(streams[i])}
PendingTimers == {k \in 1..Len(timers) : PendingTimer(timers[k])}

\* C2 (as stated): right after the maxRetries-th consecutive OnError since
\* retryCount was 0, with no OnOpen in between, the state is disconnected.
C2_DisconnectedAfterMaxRetriesErrors ==
    (cliLast = "error" /\ errs = maxRetries) => connectionStatus = "disconnected"

\* C2 (amended): the state is disconnected right after the (maxRetries + 1)-th
\* consecutive OnError (the first attempt and its maxRetries retries) and not
\* before; in disconnected no stream is live and no reconnect timer is pending,
\* and the only steps out of it are a manual reconnect() and the teardown: no
\* automatic connect().
C2_DisconnectedAfterRetriesExhausted ==
    /\ [](/\ (cliLast = "error" /\ errs = maxRetries + 1)
                => connectionStatus = "disconnected"
          /\ errs <= maxRetries => connectionStatus # "disconnected"
          /\ connectionStatus = "disconnected"
                => (LiveStreams = {} /\ PendingTimers = {} /\ ~effectPending))
    /\ [][connectionStatus = "disconnected"
            => cliLast' \in {"reconnect", "teardown"}]_vars

C2_Witness ==
    /\ cliLast = "error"
    /\ errs = maxRetries + 1
    /\ retryCount = maxRetries
    /\ connectionStatus = "disconnected"

\* C3: in every reachable state 0 <= retryCount <= maxRetries.
C3_RetryCountBounded == 0 <= retryCount /\ retryCount <= maxRetries

C3_Witness == retryCount = maxRetries /\ connectionStatus = "connecting"

\* C5: at most one stream is live and at most one reconnect timer is pending,
\* and each is the one its ref points to, so that connect() and the clean-up
\* reach it; a timeout that was cleared is not pending and cannot fire.
C5_OneStreamOneTimer ==
    /\ Cardinality(LiveStreams) <= 1
    /\ Cardinality(PendingTimers) <= 1
    /\ LiveStreams \subseteq {esRef}
    /\ PendingTimers \subseteq {timerRef}

\* A connect() that replaced a live stream: the effect re-run after a retry.
C5_Witness ==
    /\ cliLast = "effect"
    /\ retryCount > 0
    /\ Cardinality(LiveStreams) = 1
    /\ PendingTimers = {}
    /\ timerRef # 0

\* C6: right after a manual reconnect() retryCount is 0, the state is
\* connecting, a new stream is live and no reconnect timer is pending; the
\* stream that can then fail carries retryCount 0, so its first failure
\* schedules a retry from attempt 0.
C6_ManualReconnectResets ==
    /\ cliLast = "reconnect"
          => /\ retryCount = 0
             /\ connectionStatus = "connecting"
             /\ Cardinality(LiveStreams) = 1
             /\ PendingTimers = {}
    /\ ~effectPending => \A i \in LiveStreams : streams[i].cap = retryCount
    /\ (cliLast = "error" /\ errs = 1)
          => /\ connectionStatus = "reconnecting"
             /\ \E k \in PendingTimers : timers[k].cap = 0

C6_Witness ==
    /\ afterManual
    /\ cliLast = "error"
    /\ errs = 1
    /\ connectionStatus = "reconnecting"

\* C7: a message whose payload fails to parse, received while connected,
\* records the parse error and changes nothing else: the state stays
\* connected, retryCount, the stored message, the streams and the timers are
\* unchanged, and no effect re-run (hence no reconnect) is queued.
C7_BadPayloadOnlySetsError ==
    [][(cliLast' = "badMessage" /\ connectionStatus = "connected")
          => /\ error' = ParseError
             /\ connectionStatus' = "connected"
             /\ UNCHANGED <<retryCount, helloData, lastUpdateTime, streams, esRef,
                            timers, timerRef, effectPending, mounted>>]_vars

C7_Witness ==
    /\ cliLast = "badMessage"
    /\ connectionStatus = "connected"
    /\ error = ParseError
    /\ helloData = "Message@2"
    /\ Cardinality(LiveStreams) = 1

\* The claimed lower end of the delay of retry attempt n: min(1000 * 2^n, 30000).
ClaimedBase(n) == IF n >= 5 THEN 30000 ELSE 1000 * 2 ^ n

\* C8: every pending reconnect timer was scheduled from n = retryCount as it
\* is before the increment, with a delay in [min(1000*2^n, 30000),
\* min(1000*2^n, 30000) + 1000): between 1000 and 2000 ms for n = 0 and never
\* 31000 ms or more.
C8_BackoffDelayRange ==
    \A k \in PendingTimers :
        /\ timers[k].cap = retryCount
        /\ ClaimedBase(retryCount) <= timers[k].delay
        /\ timers[k].delay < ClaimedBase(retryCount) + 1000
        /\ timers[k].delay < 31000
        /\ retryCount = 0 => (1000 <= timers[k].delay /\ timers[k].delay < 2000)

C8_Witness ==
    \E k \in PendingTimers :
        /\ retryCount = 4
        /\ timers[k].delay = 16999

C10_TeardownFinal ==
    /\ [](~mounted => (LiveStreams = {} /\ PendingTimers = {} /\ ~effectPending))
    /\ [][~mounted => UNCHANGED cliVars]_vars

\* A teardown that cancelled a pending reconnect timer.
C10_Witness ==
    /\ ~mounted
    /\ cliLast = "teardown"
    /\ connectionStatus = "reconnecting"
    /\ timerRef # 0

AnOpenStream == \E i \in 1..Len(streams) : streams[i].ready = "open"

C19_SelfHealing ==
    /\ [](((connectionStatus \in {"connecting", "reconnecting"}) /\ mounted)
            => <>(connectionStatus \in {"connected", "disconnected"} \/ ~mounted))
    /\ <>[](cliLast # "error" /\ mounted)
            => <>[](connectionStatus = "connected" /\ retryCount = 0)

\* Connected for good after a failed first attempt.
C19_Witness ==
    /\ connectionStatus = "connected"
    /\ retryCount = 0
    /\ ~effectPending
    /\ cliLast = "open"
    /\ timerRef # 0
    /\ ~afterManual

\* C20 (as stated): a stream that has opened stops being open only by an
\* OnError on it, a manual reconnect() or the teardown.
C20_OpenStreamKept ==
    [][(AnOpenStream /\ ~AnOpenStream')
          => cliLast' \in {"error", "reconnect", "teardown"}]_vars

\* C21: while mounted, in reconnecting exactly one reconnect timer is pending
\* and no stream is live.  The firing of that timer increases retryCount by
\* exactly 1 and leaves the state connecting with one new stream and no
\* pending timer; the effect re-run that the increase triggers leaves the
\* state connecting with one stream, whose handlers captured the increased
\* retryCount, so that its onerror tests and backs off from that value.
C21_ReconnectingThenRetry ==
    /\ []((connectionStatus = "reconnecting" /\ mounted)
            => /\ Cardinality(PendingTimers) = 1
               /\ LiveStreams = {}
               /\ ~effectPending)
    /\ [][(connectionStatus = "reconnecting" /\ cliLast' = "timer")
            => /\ retryCount' = retryCount + 1
               /\ connectionStatus' = "connecting"
               /\ Cardinality(LiveStreams') = 1
               /\ \A i \in LiveStreams' : streams'[i].ready = "connecting"
               /\ PendingTimers' = {}
               /\ effectPending']_vars
    /\ [][(cliLast = "timer" /\ cliLast' = "effect")
            => /\ retryCount' = retryCount
               /\ connectionStatus' = "connecting"
               /\ Cardinality(LiveStreams') = 1
               /\ \A i \in LiveStreams' :
                     /\ streams'[i].ready = "connecting"
                     /\ streams'[i].cap = retryCount'
               /\ PendingTimers' = {}]_vars
    /\ [][(cliLast' = "error" /\ connectionStatus' = "reconnecting")
            => \A k \in PendingTimers' : timers'[k].cap = retryCount']_vars

\* The stream of the third retry, connecting after the effect re-run that
\* followed the timer.
C21_Witness ==
    /\ cliLast = "effect"
    /\ connectionStatus = "connecting"
    /\ retryCount = 3
    /\ errs = 3
    /\ \E i \in LiveStreams : streams[i].cap = 3

\* C22 (as stated): right after a connect() whose `new EventSource` threw, the
\* state is disconnected with the error 'Failed to establish connection', no
\* stream is live and no reconnect timer is pending, whatever retryCount is;
\* and no automatic retry follows: the next step of the client is a manual
\* reconnect() or the teardown, never a connect() of its own.
C22_SyncFailureIsFinal ==
    /\ [](threw => /\ connectionStatus = "disconnected"
                    /\ error = ConnectError
                    /\ LiveStreams = {}
                    /\ PendingTimers = {})
    /\ [][threw => cliLast' \in {"reconnect", "teardown"}]_vars

=============================================================================
